---------------------------- MODULE Spec2Model ----------------------------
(***************************************************************************)
(* Line-breaking and pagination engine of handwriteA4                      *)
(* (src/handwritten_composer.py, class HandwrittenComposer).               *)
(*                                                                         *)
(* A text is a sequence of characters; a character is a one-element string *)
(* for ASCII and the name of its code point ("U4E2D") for a character      *)
(* outside ASCII.  Widths are integers (one unit = the width of a Latin    *)
(* glyph); the configuration (text_area_width, paragraph_indent and the    *)
(* two page capacities) is an input of the composer and is chosen in Init. *)
(* The only whitespace character of the input alphabet is the space.       *)
(***************************************************************************)
EXTENDS Integers, Sequences, FiniteSets, TLC

VARIABLES
    config,              \* LayoutConfig: the fields the composer reads
    input_blocks,        \* the caller's list given to compose_document
    pc,                  \* position of the composition
    pages,               \* compose_document: pages
    remaining_blocks,    \* compose_document: remaining_blocks / compose_page: content_blocks
    page_number,         \* compose_document: page_number
    max_lines,           \* compose_page: max_lines
    lines,               \* compose_page: lines
    current_line_number, \* compose_page: current_line_number
    block_index,         \* compose_page: block_index (1-based here)
    block_lines,         \* compose_block: lines
    remaining_text,      \* compose_block: remaining_text
    is_first_line,       \* compose_block: is_first_line
    lines_used,          \* compose_block: lines_used
    fill_text,           \* fill_line_handwritten: argument text
    fill_class,          \* fill_line_handwritten: line_config['css_class']
    fill_result,         \* fill_line_handwritten: returned tuple
    returned,            \* what the calls of compose_document returned so far
    hyphen_word,         \* find_best_hyphen_position: argument word
    hyphen_point         \* find_best_hyphen_position: returned position

vars == <<config, input_blocks, pc, pages, remaining_blocks, page_number,
          max_lines, lines, current_line_number, block_index,
          block_lines, remaining_text, is_first_line, lines_used,
          fill_text, fill_class, fill_result, returned,
          hyphen_word, hyphen_point>>

---------------------------------------------------------------------------
(* Bounds of the model *)

\* longest input document, in blocks
MaxBlocks == 2
\* largest page capacity (first_page_lines, normal_page_lines) tried
MaxLines == 3
\* the line loop of compose_block is cut off after this many lines
MaxBlockLines == 7
\* longest text handed to fill_line_handwritten in LineSpec
MaxTextLen == 4
\* number of times compose_document is called on the same composer and list
MaxRuns == 2

---------------------------------------------------------------------------
(* Characters *)

\* a CJK ideograph: U+4E00 <= char <= U+9FFF
CJK == {"U4E2D"}

_is_chinese_char(char) == char \in CJK

\* the literal '.,;:!?):]}，。；：！？）：】》、' of fill_line_handwritten
PUNCTUATION ==
    {".", ",", ";", ":", "!", "?", ")", "]", "}",
     "UFF0C", "U3002", "UFF1B", "UFF1A", "UFF01", "UFF1F", "UFF09",
     "U3011", "U300B", "U3001"}

IsWhitespace(char) == char = " "

UpperToLower ==
    [c \in {"A", "B", "C", "D", "E", "F", "G", "H", "I", "J", "K", "L", "M",
            "N", "O", "P", "Q", "R", "S", "T", "U", "V", "W", "X", "Y", "Z"} |->
        CASE c = "A" -> "a" [] c = "B" -> "b" [] c = "C" -> "c" [] c = "D" -> "d"
          [] c = "E" -> "e" [] c = "F" -> "f" [] c = "G" -> "g" [] c = "H" -> "h"
          [] c = "I" -> "i" [] c = "J" -> "j" [] c = "K" -> "k" [] c = "L" -> "l"
          [] c = "M" -> "m" [] c = "N" -> "n" [] c = "O" -> "o" [] c = "P" -> "p"
          [] c = "Q" -> "q" [] c = "R" -> "r" [] c = "S" -> "s" [] c = "T" -> "t"
          [] c = "U" -> "u" [] c = "V" -> "v" [] c = "W" -> "w" [] c = "X" -> "x"
          [] c = "Y" -> "y" [] c = "Z" -> "z"]

\* str.lower()
lower(word) ==
    [i \in 1..Len(word) |->
        IF word[i] \in DOMAIN UpperToLower THEN UpperToLower[word[i]] ELSE word[i]]

\* str.strip() / str.lstrip()
RECURSIVE lstrip(_)
lstrip(text) ==
    IF text # <<>> /\ IsWhitespace(text[1]) THEN lstrip(Tail(text)) ELSE text

RECURSIVE rstrip(_)
rstrip(text) ==
    IF text # <<>> /\ IsWhitespace(text[Len(text)])
    THEN rstrip(SubSeq(text, 1, Len(text) - 1))
    ELSE text

strip(text) == rstrip(lstrip(text))

startswith(word, prefix) ==
    Len(prefix) <= Len(word) /\ SubSeq(word, 1, Len(prefix)) = prefix

endswith(word, suffix) ==
    Len(suffix) <= Len(word)
    /\ SubSeq(word, Len(word) - Len(suffix) + 1, Len(word)) = suffix

SetMax(S) == CHOOSE m \in S : \A n \in S : n <= m

---------------------------------------------------------------------------
(* CharWidthCalculator (char_width.py): a CJK character has a fixed       *)
(* full-width unit, every other glyph its own metric; the width of a text  *)
(* is the sum of the widths of its characters.                             *)

CJKWidth == 2
LatinWidth == 1

get_char_width(char) == IF _is_chinese_char(char) THEN CJKWidth ELSE LatinWidth

RECURSIVE get_text_width(_)
get_text_width(text) ==
    IF text = <<>> THEN 0
    ELSE get_char_width(text[1]) + get_text_width(Tail(text))

---------------------------------------------------------------------------
(* Hyphenation *)

\* find_best_hyphen_position: special_words
special_words ==
    {<<<<"c", "h", "a", "t", "g", "p", "t">>, 4>>,
     <<<<"a", "r", "t", "i", "f", "i", "c", "i", "a", "l">>, 4>>,
     <<<<"i", "n", "t", "e", "l", "l", "i", "g", "e", "n", "c", "e">>, 5>>,
     <<<<"t", "r", "a", "n", "s", "f", "o", "r", "m", "e", "r">>, 5>>,
     <<<<"d", "e", "e", "p", "m", "i", "n", "d">>, 4>>,
     <<<<"t", "e", "n", "s", "o", "r", "f", "l", "o", "w">>, 6>>,
     <<<<"p", "y", "t", "o", "r", "c", "h">>, 2>>,
     <<<<"m", "a", "c", "h", "i", "n", "e">>, 2>>,
     <<<<"l", "e", "a", "r", "n", "i", "n", "g">>, 4>>,
     <<<<"n", "e", "u", "r", "a", "l">>, 3>>,
     <<<<"n", "e", "t", "w", "o", "r", "k">>, 3>>,
     <<<<"a", "l", "g", "o", "r", "i", "t", "h", "m">>, 4>>,
     <<<<"c", "o", "m", "p", "u", "t", "e", "r">>, 3>>,
     <<<<"t", "e", "c", "h", "n", "o", "l", "o", "g", "y">>, 4>>,
     <<<<"d", "e", "v", "e", "l", "o", "p", "m", "e", "n", "t">>, 6>>,
     <<<<"p", "r", "o", "c", "e", "s", "s", "i", "n", "g">>, 4>>,
     <<<<"m", "i", "c", "r", "o", "s", "o", "f", "t">>, 5>>,
     <<<<"g", "e", "n", "e", "r", "a", "l">>, 3>>,
     <<<<"s", "y", "s", "t", "e", "m">>, 3>>,
     <<<<"l", "a", "n", "g", "u", "a", "g", "e">>, 4>>,
     <<<<"n", "a", "t", "u", "r", "a", "l">>, 3>>,
     <<<<"g", "e", "n", "e", "r", "a", "t", "i", "o", "n">>, 4>>,
     <<<<"f", "o", "u", "n", "d", "a", "t", "i", "o", "n">>, 4>>,
     <<<<"a", "r", "c", "h", "i", "t", "e", "c", "t", "u", "r", "e">>, 5>>,
     <<<<"u", "n", "d", "e", "r", "s", "t", "a", "n", "d", "i", "n", "g">>, 5>>,
     <<<<"i", "n", "f", "o", "r", "m", "a", "t", "i", "o", "n">>, 2>>,
     <<<<"a", "p", "p", "l", "i", "c", "a", "t", "i", "o", "n">>, 3>>,
     <<<<"o", "p", "t", "i", "m", "i", "z", "a", "t", "i", "o", "n">>, 4>>,
     <<<<"i", "n", "t", "e", "g", "r", "a", "t", "i", "o", "n">>, 4>>,
     <<<<"i", "m", "p", "l", "e", "m", "e", "n", "t", "a", "t", "i", "o", "n">>, 2>>,
     <<<<"c", "l", "a", "s", "s", "i", "f", "i", "c", "a", "t", "i", "o", "n">>, 5>>,
     <<<<"i", "n", "t", "e", "r", "p", "r", "e", "t", "a", "t", "i", "o", "n">>, 6>>,
     <<<<"r", "e", "p", "r", "e", "s", "e", "n", "t", "a", "t", "i", "o", "n">>, 3>>,
     <<<<"c", "o", "m", "m", "u", "n", "i", "c", "a", "t", "i", "o", "n">>, 3>>,
     <<<<"r", "e", "c", "o", "m", "m", "e", "n", "d", "a", "t", "i", "o", "n">>, 3>>}

\* the dictionary as a lookup: the words it holds and the index of a word
special_keys == {entry[1] : entry \in special_words}

special_index(word_lower) ==
    (CHOOSE entry \in special_words : entry[1] = word_lower)[2]

common_prefixes ==
    {<<"p", "r", "e">>, <<"p", "r", "o">>, <<"a", "n", "t", "i">>, <<"a", "u", "t", "o">>,
     <<"c", "o">>, <<"d", "e">>, <<"d", "i", "s">>, <<"e", "n">>, <<"e", "m">>,
     <<"f", "o", "r", "e">>, <<"i", "n">>, <<"i", "m">>, <<"i", "l">>, <<"i", "r">>,
     <<"i", "n", "t", "e", "r">>, <<"m", "i", "d">>, <<"m", "i", "s">>, <<"n", "o", "n">>,
     <<"o", "v", "e", "r">>, <<"o", "u", "t">>, <<"p", "o", "s", "t">>, <<"r", "e">>,
     <<"s", "e", "m", "i">>, <<"s", "u", "b">>, <<"s", "u", "p", "e", "r">>,
     <<"t", "r", "a", "n", "s">>, <<"u", "n">>, <<"u", "n", "d", "e", "r">>}

common_suffixes ==
    {<<"a", "b", "l", "e">>, <<"i", "b", "l", "e">>, <<"a", "l">>, <<"i", "a", "l">>,
     <<"e", "d">>, <<"e", "n">>, <<"e", "r">>, <<"e", "s", "t">>, <<"f", "u", "l">>,
     <<"i", "c">>, <<"i", "n", "g">>, <<"i", "o", "n">>, <<"t", "i", "o", "n">>,
     <<"a", "t", "i", "o", "n">>, <<"i", "t", "i", "o", "n">>, <<"i", "t", "y">>, <<"t", "y">>,
     <<"i", "v", "e">>, <<"a", "t", "i", "v", "e">>, <<"i", "t", "i", "v", "e">>,
     <<"l", "e", "s", "s">>, <<"l", "y">>, <<"m", "e", "n", "t">>, <<"n", "e", "s", "s">>,
     <<"o", "u", "s">>, <<"e", "o", "u", "s">>, <<"i", "o", "u", "s">>, <<"s">>, <<"e", "s">>,
     <<"y">>}

\* try_hyphenate_word: protected_words
protected_words ==
    {<<"o", "p", "e", "n", "a", "i">>, <<"g", "o", "o", "g", "l", "e">>,
     <<"d", "e", "e", "p", "m", "i", "n", "d">>, <<"c", "h", "a", "t", "g", "p", "t">>,
     <<"c", "l", "a", "u", "d", "e">>, <<"b", "e", "r", "t">>,
     <<"t", "r", "a", "n", "s", "f", "o", "r", "m", "e", "r">>,
     <<"a", "t", "t", "e", "n", "t", "i", "o", "n">>,
     <<"m", "u", "l", "t", "i", "h", "e", "a", "d">>,
     <<"a", "l", "p", "h", "a", "f", "o", "l", "d">>, <<"w", "a", "y", "m", "o">>,
     <<"t", "e", "s", "l", "a">>, <<"a", "p", "o", "l", "l", "o">>,
     <<"p", "y", "t", "o", "r", "c", "h">>,
     <<"t", "e", "n", "s", "o", "r", "f", "l", "o", "w">>, <<"n", "v", "i", "d", "i", "a">>,
     <<"m", "i", "c", "r", "o", "s", "o", "f", "t">>,
     <<"a", "r", "t", "i", "f", "i", "c", "i", "a", "l">>,
     <<"i", "n", "t", "e", "l", "l", "i", "g", "e", "n", "c", "e">>,
     <<"l", "a", "m", "d", "a">>, <<"p", "a", "l", "m">>}

\* find_best_hyphen_position, the default: the midpoint, 2 characters a side
midpoint_position(word) ==
    IF Len(word) \div 2 < 2 THEN 2
    ELSE IF Len(word) \div 2 > Len(word) - 2 THEN Len(word) - 2
    ELSE Len(word) \div 2

\* the largest length in a set of lengths, 0 for the empty set
longest(lengths) == IF lengths = {} THEN 0 ELSE SetMax(lengths)

\* the dictionary's index of the word when it is usable, else 0
special_position(word_lower) ==
    IF word_lower \in special_keys
    THEN IF 2 <= special_index(word_lower) /\ special_index(word_lower) <= Len(word_lower) - 2
         THEN special_index(word_lower)
         ELSE 0
    ELSE 0

\* the length of the longest usable prefix of the word, 0 when there is none
prefix_length(word_lower) ==
    longest({Len(prefix) : prefix \in
                {p \in common_prefixes :
                    /\ startswith(word_lower, p)
                    /\ Len(p) >= 2
                    /\ Len(word_lower) - Len(p) >= 2}})

\* suffix_length without the test "len(suffix) >= 2"
suffix_length_any(word_lower) ==
    longest({Len(suffix) : suffix \in
                {s \in common_suffixes :
                    /\ endswith(word_lower, s)
                    /\ Len(word_lower) - Len(s) >= 2}})

\* the length of the longest usable suffix of the word, 0 when there is none
suffix_length(word_lower) ==
    longest({Len(suffix) : suffix \in
                {s \in common_suffixes :
                    /\ endswith(word_lower, s)
                    /\ Len(s) >= 2
                    /\ Len(word_lower) - Len(s) >= 2}})

\* the order of the rules: dictionary, prefix, suffix, midpoint
first_rule(word, special, prefix, suffix) ==
    IF special > 0 THEN special
    ELSE IF prefix > 0 THEN prefix
    ELSE IF suffix > 0 THEN Len(word) - suffix
    ELSE midpoint_position(word)

find_best_hyphen_position(word) ==
    first_rule(word, special_position(lower(word)), prefix_length(lower(word)),
               suffix_length(lower(word)))

\* the None of try_hyphenate_word (a fitted part always ends with "-")
None == [fitted |-> <<>>, remaining |-> <<>>, width |-> 0]

\* try_hyphenate_word without the test of the width
hyphenate_at_any_width(word, hyphen_pos, available_width) ==
    [fitted    |-> SubSeq(word, 1, hyphen_pos) \o <<"-">>,
     remaining |-> SubSeq(word, hyphen_pos + 1, Len(word)),
     width     |-> get_text_width(SubSeq(word, 1, hyphen_pos) \o <<"-">>)]

\* try_hyphenate_word once the position is known
hyphenate_at(word, hyphen_pos, available_width) ==
    IF get_text_width(SubSeq(word, 1, hyphen_pos) \o <<"-">>) <= available_width
    THEN [fitted    |-> SubSeq(word, 1, hyphen_pos) \o <<"-">>,
          remaining |-> SubSeq(word, hyphen_pos + 1, Len(word)),
          width     |-> get_text_width(SubSeq(word, 1, hyphen_pos) \o <<"-">>)]
    ELSE None

\* try_hyphenate_word without the protected words
try_hyphenate_word_unprotected(word, available_width) ==
    IF Len(word) <= 6 THEN None
    ELSE hyphenate_at(word, find_best_hyphen_position(word), available_width)

try_hyphenate_word(word, available_width) ==
    IF Len(word) <= 6 THEN None
    ELSE IF lower(word) \in protected_words THEN None
    ELSE hyphenate_at(word, find_best_hyphen_position(word), available_width)

---------------------------------------------------------------------------
(* fill_line_handwritten *)

IsWordChar(char) ==
    /\ char # " "
    /\ char \notin PUNCTUATION
    /\ ~_is_chinese_char(char)

\* the inner while of the tokenizer: the index after the word starting at i
RECURSIVE word_end(_, _)
word_end(text, i) ==
    IF i <= Len(text) /\ IsWordChar(text[i]) THEN word_end(text, i + 1) ELSE i

Word(text, type) == [text |-> text, type |-> type]

\* step 1: the words of the text, from position i on
RECURSIVE tokenize(_, _)
tokenize(text, i) ==
    IF i > Len(text) THEN <<>>
    ELSE IF _is_chinese_char(text[i])
         THEN <<Word(<<text[i]>>, "chinese")>> \o tokenize(text, i + 1)
    ELSE IF text[i] = " "
         THEN <<Word(<<text[i]>>, "space")>> \o tokenize(text, i + 1)
    ELSE IF text[i] \in PUNCTUATION
         THEN <<Word(<<text[i]>>, "punctuation")>> \o tokenize(text, i + 1)
    ELSE <<Word(SubSeq(text, i, word_end(text, i) - 1), "english")>>
             \o tokenize(text, word_end(text, i))

\* the state of the filling loop when it is left
Filled(words, word_index, current_line, current_width) ==
    [words |-> words, word_index |-> word_index,
     current_line |-> current_line, current_width |-> current_width]

\* the word at word_index does not fit: the line ends, with the first part
\* of the word when try_hyphenate_word gave one
end_line(words, word_index, current_line, current_width, hyphen_result) ==
    IF hyphen_result # None
    THEN Filled([words EXCEPT ![word_index].text = hyphen_result.remaining],
                word_index,
                current_line \o hyphen_result.fitted,
                current_width + hyphen_result.width)
    ELSE Filled(words, word_index, current_line, current_width)

\* step 2: the filling loop, from word_index on
RECURSIVE fill_words(_, _, _, _, _)
fill_words(words, word_index, current_line, current_width, available_width) ==
    IF word_index > Len(words)
    THEN Filled(words, word_index, current_line, current_width)
    ELSE IF current_width + get_text_width(words[word_index].text) > available_width
    THEN IF words[word_index].type = "english" /\ Len(words[word_index].text) > 6
         THEN end_line(words, word_index, current_line, current_width,
                       try_hyphenate_word(words[word_index].text,
                                          available_width - current_width))
         ELSE Filled(words, word_index, current_line, current_width)
    ELSE fill_words(words, word_index + 1,
                    current_line \o words[word_index].text,
                    current_width + get_text_width(words[word_index].text),
                    available_width)

RECURSIVE join_words(_, _)
join_words(words, i) ==
    IF i > Len(words) THEN <<>> ELSE words[i].text \o join_words(words, i + 1)

\* index of the last character of the line that is neither a space nor
\* punctuation, 0 when there is none
last_movable(current_line) ==
    longest({i \in 1..Len(current_line) :
                current_line[i] # " " /\ current_line[i] \notin PUNCTUATION})

\* the fix-up moves the character at index i of the line to the remainder
move_char(current_line, current_width, remaining, i) ==
    [current_line   |-> SubSeq(current_line, 1, i - 1)
                            \o SubSeq(current_line, i + 1, Len(current_line)),
     current_width  |-> current_width - get_char_width(current_line[i]),
     remaining_text |-> <<current_line[i]>> \o remaining]

\* step 3: the orphan-punctuation fix-up
fix_punctuation(current_line, current_width, remaining) ==
    IF remaining # <<>> /\ remaining[1] \in PUNCTUATION /\ last_movable(current_line) > 0
    THEN move_char(current_line, current_width, remaining, last_movable(current_line))
    ELSE [current_line   |-> current_line,
          current_width  |-> current_width,
          remaining_text |-> remaining]

\* utilization is the fraction num / den
Ratio(num, den) == [num |-> num, den |-> den]

\* the returned tuple
FillResult(line, remainder, width, utilization) ==
    [line |-> line, remainder |-> remainder, width |-> width,
     utilization |-> utilization]

\* the end of fill_line_handwritten, after the fix-up
finish_line(fixed, indent, max_width) ==
    FillResult(fixed.current_line,
               lstrip(fixed.remaining_text),
               fixed.current_width + indent,
               IF max_width > 0
               THEN Ratio(fixed.current_width + indent, max_width)
               ELSE Ratio(0, 1))

\* steps 1 to 3 on a text that is not blank
fill_and_fix(filled) ==
    fix_punctuation(filled.current_line, filled.current_width,
                    join_words(filled.words, filled.word_index))

line_indent(css_class, cfg) == IF css_class = "zw1" THEN cfg.paragraph_indent ELSE 0

\* fill_line_handwritten with available_width = max_width, the indent not
\* taken off
fill_line_handwritten_full_width(text, css_class, cfg) ==
    IF strip(text) = <<>>
    THEN FillResult(<<>>, <<>>, line_indent(css_class, cfg), Ratio(0, 1))
    ELSE finish_line(fill_and_fix(fill_words(tokenize(text, 1), 1, <<>>, 0,
                                             cfg.text_area_width)),
                     line_indent(css_class, cfg), cfg.text_area_width)

fill_line_handwritten(text, css_class, cfg) ==
    IF strip(text) = <<>>
    THEN FillResult(<<>>, <<>>, line_indent(css_class, cfg), Ratio(0, 1))
    ELSE finish_line(fill_and_fix(fill_words(tokenize(text, 1), 1, <<>>, 0,
                                             cfg.text_area_width
                                                 - line_indent(css_class, cfg))),
                     line_indent(css_class, cfg), cfg.text_area_width)

---------------------------------------------------------------------------
(* Data structures *)

\* ContentBlock; metadata carries is_continuation only
ContentBlock(type, text, is_continuation) ==
    [type |-> type, text |-> text, is_continuation |-> is_continuation]

\* LayoutLine; line_display is the sequence of the slot numbers it shows
LayoutLine(text, css_class, width, utilization, line_number, line_display) ==
    [text |-> text, css_class |-> css_class, width |-> width,
     utilization |-> utilization, line_number |-> line_number,
     line_display |-> line_display]

Page(page_lines, number, capacity) ==
    [lines |-> page_lines, page_number |-> number,
     line_count |-> Len(page_lines),
     remaining_lines |-> capacity - Len(page_lines)]

\* self.line_types[...]['css_class']
heading_css_class(type) == IF type = "h1" THEN "bt1" ELSE "bt2"

\* create_page_counter without the first-page capacity
create_page_counter_normal(cfg, number) == cfg.normal_page_lines

\* create_page_counter: the capacity of the page
create_page_counter(cfg, number) ==
    IF number = 1 THEN cfg.first_page_lines ELSE cfg.normal_page_lines

---------------------------------------------------------------------------
(* compose_block *)

\* the heading branch with the line display of a paragraph line
compose_heading_one_slot(block, start_line_number, cfg) ==
    <<LayoutLine(block.text, heading_css_class(block.type),
                 get_text_width(block.text),
                 Ratio(get_text_width(block.text), cfg.text_area_width),
                 start_line_number,
                 <<start_line_number>>)>>

\* the heading branch: one title line, which counts 2 lines
compose_heading(block, start_line_number, cfg) ==
    <<LayoutLine(block.text, heading_css_class(block.type),
                 get_text_width(block.text),
                 Ratio(get_text_width(block.text), cfg.text_area_width),
                 start_line_number,
                 <<start_line_number, start_line_number + 1>>)>>



\* number of line slots a heading takes
HeadingLines == 2

\* line_css_class without zw2
line_css_class_no_middle(text, first_line, cfg) ==
    IF first_line THEN "zw1" ELSE "zw3"

\* the class of the next paragraph line
line_css_class(text, first_line, cfg) ==
    IF first_line THEN "zw1"
    ELSE IF get_text_width(text) <= cfg.text_area_width THEN "zw3"   \* is_last_line
    ELSE "zw2"

\* the two breaks of the line loop
line_loop_breaks(line_text, rest) ==
    \/ line_text = <<>> /\ rest = <<>>
    \/ strip(line_text) = <<>> /\ strip(rest) = <<>>


\* "Final check": the last line of the block becomes zw3
final_check(blines) ==
    IF blines # <<>> /\ blines[Len(blines)].css_class \notin {"bt1", "bt2", "zw3"}
    THEN [blines EXCEPT ![Len(blines)].css_class = "zw3"]
    ELSE blines

\* the texts of the lines compose_block returns for a text, the line loop
\* run at most fuel times
RECURSIVE block_line_texts(_, _, _, _)
next_line_texts(filled, cfg, fuel) ==
    IF line_loop_breaks(filled.line, filled.remainder)
    THEN <<>>
    ELSE <<filled.line>> \o block_line_texts(filled.remainder, FALSE, cfg, fuel - 1)

block_line_texts(text, first_line, cfg, fuel) ==
    IF text = <<>> \/ fuel = 0
    THEN <<>>
    ELSE next_line_texts(
             fill_line_handwritten(text, line_css_class(text, first_line, cfg), cfg),
             cfg, fuel)

---------------------------------------------------------------------------
(* compose_page *)


\* heading_deferred with the test of a one-line block: "line_number > max_lines"
heading_deferred_one_line(line_number, capacity) == line_number > capacity

\* heading_deferred with ">=" for ">"
heading_deferred_early(line_number, capacity) == line_number + 1 >= capacity

\* heading_deferred for a heading of 3 slots
heading_deferred_three_slots(line_number, capacity) == line_number + 2 > capacity

\* a heading at slot line_number does not fit any more
heading_deferred(line_number, capacity) == line_number + 1 > capacity

\* the for loop over block_lines: how many of them go on this page
RECURSIVE lines_that_fit(_, _, _, _)
lines_that_fit(blines, line_number, capacity, lines_consumed) ==
    IF lines_consumed < Len(blines) /\ line_number + lines_consumed <= capacity
    THEN lines_that_fit(blines, line_number, capacity, lines_consumed + 1)
    ELSE lines_consumed

\* the text of the lines that did not fit, re-joined
RECURSIVE join_lines(_, _)
join_lines(blines, i) ==
    IF i > Len(blines) THEN <<>> ELSE blines[i].text \o join_lines(blines, i + 1)

continuation_block(blines, lines_consumed) ==
    ContentBlock("paragraph", join_lines(blines, lines_consumed + 1), TRUE)

\* "if current_line_number >= max_lines: break" after a paragraph
page_full(line_number, capacity) == line_number >= capacity

---------------------------------------------------------------------------
(* compose_document *)

\* the safety cap on the number of pages
MaxPages == 20

\* compose_document without "copy": on page 1 compose_page gets the caller's list
is_callers_list_uncopied(number) == number = 1

\* a compose_page that writes to the caller's list on every page
is_callers_list_always(number) == TRUE

\* remaining_blocks = content_blocks.copy(): the list compose_page gets,
\* and writes the continuation block to, is never the caller's list
is_callers_list(number) == FALSE

page_cap_reached(number) == number > MaxPages

---------------------------------------------------------------------------
(* Inputs *)

Z == "U4E2D"

\* text_area_width and paragraph_indent of the configuration, in units
TextAreaWidth == 4
ParagraphIndent == 1

Configs ==
    [text_area_width   : {TextAreaWidth},
     paragraph_indent  : {ParagraphIndent},
     first_page_lines  : 1..MaxLines,
     normal_page_lines : 1..MaxLines]

HeadingText == <<Z>>

ParagraphTexts ==
    {<<>>,                                         \* empty
     <<Z>>,                                        \* one line
     <<" ", Z>>,                                   \* one line, padded
     <<Z, Z, Z, Z, Z>>,                            \* three lines
     <<"a", "b", "c", "d", "e">>,                  \* a short word wider than a line
     <<"a", "b", "c", "d", "e", "f", "g">>,        \* a word to hyphenate
     <<Z, " ", "a", "b", "c", "d", " ", "e", "f">>,\* a break at a space
     <<"x", "a", ",", ".", "b">>,                  \* punctuation around a break
     <<Z, Z, Z, ",", Z>>,                          \* a break before punctuation
     <<",", ",", ",", ",", ",">>}                  \* punctuation only

BlockChoices ==
    {ContentBlock(type, HeadingText, FALSE) : type \in {"h1", "h2", "h3"}}
    \cup {ContentBlock("paragraph", text, FALSE) : text \in ParagraphTexts}

Documents == UNION {[1..n -> BlockChoices] : n \in 0..MaxBlocks}

NoFill == FillResult(<<>>, <<>>, 0, Ratio(0, 1))

---------------------------------------------------------------------------
(* The composition as a state machine *)

page_locals == <<max_lines, lines, current_line_number, block_index>>
block_locals == <<block_lines, remaining_text, is_first_line, lines_used>>
fill_locals == <<fill_text, fill_class, fill_result>>
hyphen_locals == <<hyphen_word, hyphen_point>>

\* compose_document is called on a composer with one of the configurations
InitWith(configs) ==
    /\ config \in configs
    /\ input_blocks \in Documents
    /\ pc = "doc"
    /\ pages = <<>>
    /\ remaining_blocks = input_blocks          \* content_blocks.copy()
    /\ page_number = 1
    /\ max_lines = 0
    /\ lines = <<>>
    /\ current_line_number = 1
    /\ block_index = 1
    /\ block_lines = <<>>
    /\ remaining_text = <<>>
    /\ is_first_line = FALSE
    /\ lines_used = 0
    /\ fill_text = <<>>
    /\ fill_class = ""
    /\ fill_result = NoFill
    /\ returned = <<>>
    /\ hyphen_word = <<>>
    /\ hyphen_point = 0

Init == InitWith(Configs)

\* compose_document: the queue is not empty, compose_page is entered
StartPage ==
    /\ pc = "doc"
    /\ remaining_blocks # <<>>
    /\ max_lines' = create_page_counter(config, page_number)
    /\ lines' = <<>>
    /\ current_line_number' = 1
    /\ block_index' = 1
    /\ pc' = "page"
    /\ UNCHANGED <<config, hyphen_locals, input_blocks, returned, pages, remaining_blocks, page_number,
                   block_locals, fill_locals>>

\* compose_document: the queue is empty, the pages are returned
ReturnPages ==
    /\ pc = "doc"
    /\ remaining_blocks = <<>>
    /\ pc' = "done"
    /\ returned' = Append(returned, pages)
    /\ UNCHANGED <<config, hyphen_locals, input_blocks, pages, remaining_blocks, page_number,
                   page_locals, block_locals, fill_locals>>

\* compose_page: the block at block_index is a heading
PlaceHeading ==
    /\ pc = "page"
    /\ block_index <= Len(remaining_blocks)
    /\ remaining_blocks[block_index].type \in {"h1", "h2"}
    /\ IF heading_deferred(current_line_number, max_lines)
       THEN /\ pc' = "page_end"
            /\ UNCHANGED <<lines, current_line_number, block_index>>
       ELSE /\ lines' = lines \o compose_heading(remaining_blocks[block_index],
                                                 current_line_number, config)
            /\ current_line_number' = current_line_number + HeadingLines
            /\ block_index' = block_index + 1
            /\ pc' = "page"
    /\ UNCHANGED <<config, hyphen_locals, input_blocks, returned, pages, remaining_blocks, page_number,
                   max_lines, block_locals, fill_locals>>

\* compose_page: the block at block_index is no heading; compose_block is
\* entered when the page has a free line
StartParagraph ==
    /\ pc = "page"
    /\ block_index <= Len(remaining_blocks)
    /\ remaining_blocks[block_index].type \notin {"h1", "h2"}
    /\ IF max_lines - current_line_number + 1 <= 0
       THEN /\ pc' = "page_end"
            /\ UNCHANGED block_locals
       ELSE IF remaining_blocks[block_index].type = "paragraph"
       THEN /\ remaining_text' = strip(remaining_blocks[block_index].text)
            /\ is_first_line' = ~remaining_blocks[block_index].is_continuation
            /\ lines_used' = 0
            /\ block_lines' = <<>>
            /\ pc' = "block"
       ELSE /\ pc' = "error"                    \* raise ValueError
            /\ UNCHANGED block_locals
    /\ UNCHANGED <<config, hyphen_locals, input_blocks, returned, pages, remaining_blocks, page_number,
                   page_locals, fill_locals>>

\* the body of the line loop, given the class of the line and what
\* fill_line_handwritten returned for it
line_step(css_class, filled) ==
    /\ fill_text' = remaining_text
    /\ fill_class' = css_class
    /\ fill_result' = filled
    /\ remaining_text' = filled.remainder
    /\ IF line_loop_breaks(filled.line, filled.remainder)
       THEN /\ pc' = "block_done"
            /\ UNCHANGED <<block_lines, is_first_line, lines_used>>
       ELSE /\ block_lines' =
                   Append(block_lines,
                          LayoutLine(filled.line, css_class, filled.width,
                                     filled.utilization,
                                     current_line_number + lines_used,
                                     <<current_line_number + lines_used>>))
            /\ lines_used' = lines_used + 1
            /\ is_first_line' = FALSE
            /\ pc' = "block"

\* compose_block: one iteration of "while remaining_text"
ComposeLine ==
    /\ pc = "block"
    /\ remaining_text # <<>>
    /\ Len(block_lines) < MaxBlockLines
    /\ \E css_class \in {line_css_class(remaining_text, is_first_line, config)} :
          \E filled \in {fill_line_handwritten(remaining_text, css_class, config)} :
             line_step(css_class, filled)
    /\ UNCHANGED <<config, hyphen_locals, input_blocks, returned, pages, remaining_blocks, page_number,
                   page_locals>>

\* compose_page after compose_block returned blines, lines_consumed of which
\* fit on the page
place_lines(blines, lines_consumed) ==
    /\ lines' = lines \o SubSeq(blines, 1, lines_consumed)
    /\ current_line_number' = current_line_number + lines_consumed
    /\ IF lines_consumed > 0 /\ lines_consumed < Len(blines)
       THEN /\ remaining_blocks' =
                   [remaining_blocks EXCEPT ![block_index] =
                       continuation_block(blines, lines_consumed)]
            /\ input_blocks' =
                   IF is_callers_list(page_number)
                   THEN [remaining_blocks EXCEPT ![block_index] =
                            continuation_block(blines, lines_consumed)]
                   ELSE input_blocks
            /\ block_index' = block_index
       ELSE IF lines_consumed > 0
       THEN /\ block_index' = block_index + 1
            /\ UNCHANGED <<remaining_blocks, input_blocks>>
       ELSE UNCHANGED <<remaining_blocks, input_blocks, block_index>>
    /\ pc' = IF page_full(current_line_number + lines_consumed, max_lines)
             THEN "page_end"
             ELSE "page"

\* compose_block returns; compose_page puts the lines that fit on the page
\* and keeps the rest as a continuation block
PlaceParagraph ==
    /\ \/ pc = "block" /\ remaining_text = <<>>
       \/ pc = "block_done"
    /\ \E blines \in {final_check(block_lines)} :
          \E lines_consumed \in {lines_that_fit(blines, current_line_number,
                                                max_lines, 0)} :
             place_lines(blines, lines_consumed)
    /\ block_lines' = <<>>
    /\ remaining_text' = <<>>
    /\ is_first_line' = FALSE
    /\ lines_used' = 0
    /\ UNCHANGED <<config, hyphen_locals, returned, pages, page_number, max_lines, fill_locals>>

\* compose_page returns the page and the rest of the queue; compose_document
\* appends the page and checks the cap
FinishPage ==
    /\ \/ pc = "page" /\ block_index > Len(remaining_blocks)
       \/ pc = "page_end"
    /\ pages' = Append(pages, Page(lines, page_number, max_lines))
    /\ remaining_blocks' = SubSeq(remaining_blocks, block_index, Len(remaining_blocks))
    /\ page_number' = page_number + 1
    /\ pc' = IF page_cap_reached(page_number + 1) THEN "done" ELSE "doc"
    /\ returned' = IF page_cap_reached(page_number + 1)
                   THEN Append(returned, Append(pages, Page(lines, page_number, max_lines)))
                   ELSE returned
    /\ max_lines' = 0
    /\ lines' = <<>>
    /\ current_line_number' = 1
    /\ block_index' = 1
    /\ UNCHANGED <<config, hyphen_locals, input_blocks, block_locals, fill_locals>>

\* compose_document is called again, on the same composer and with the same
\* list
ComposeAgain ==
    /\ pc = "done"
    /\ Len(returned) < MaxRuns
    /\ pages' = <<>>
    /\ remaining_blocks' = input_blocks        \* content_blocks.copy()
    /\ page_number' = 1
    /\ pc' = "doc"
    /\ UNCHANGED <<config, hyphen_locals, input_blocks, returned, page_locals, block_locals,
                   fill_locals>>

Next ==
    \/ StartPage
    \/ ReturnPages
    \/ PlaceHeading
    \/ StartParagraph
    \/ ComposeLine
    \/ PlaceParagraph
    \/ FinishPage
    \/ ComposeAgain

Spec == Init /\ [][Next]_vars

\* The composition is a sequential program: it takes its next step as long
\* as it has one.  Termination is checked on the documents whose paragraphs
\* are empty, fit one line, take three lines, or are one word wider than a
\* line.
TermTexts ==
    {<<>>, <<Z>>, <<Z, Z, Z, Z, Z>>, <<"a", "b", "c", "d", "e">>}

TermInit ==
    /\ Init
    /\ \A i \in 1..Len(input_blocks) :
          input_blocks[i].type = "paragraph" => input_blocks[i].text \in TermTexts

FairSpec == TermInit /\ [][Next]_vars /\ WF_vars(Next)

\* The composer is constructed from any LayoutConfig: the page capacities
\* are not checked, a capacity of 0 is accepted.
AnyConfigs ==
    [text_area_width   : {TextAreaWidth},
     paragraph_indent  : {ParagraphIndent},
     first_page_lines  : 0..MaxLines,
     normal_page_lines : 0..MaxLines]

ConfigInit == InitWith(AnyConfigs)

ConfigSpec == ConfigInit /\ [][Next]_vars

---------------------------------------------------------------------------
(* fill_line_handwritten alone, on every short text *)

LineChars == {Z, "a", " ", ","}

ShortTexts(n) == UNION {[1..k -> LineChars] : k \in 0..n}

LongWords ==
    {<<"a", "b", "c", "d", "e", "f", "g">>,        \* split at the midpoint
     <<"m", "a", "c", "h", "i", "n", "e">>,        \* in special_words
     <<"p", "y", "t", "o", "r", "c", "h">>,        \* in protected_words
     <<"P", "y", "T", "o", "r", "c", "h">>}        \* in protected_words, in lower case

LineTexts ==
    ShortTexts(MaxTextLen)
    \cup {head \o word : head \in ShortTexts(1), word \in LongWords}

LineConfigs ==
    [text_area_width   : (ParagraphIndent + 1)..TextAreaWidth,
     paragraph_indent  : {ParagraphIndent},
     first_page_lines  : {MaxLines},
     normal_page_lines : {MaxLines}]

\* fill_line_handwritten is called on a composer with one of the
\* configurations
LineInitWith(configs) ==
    /\ config \in configs
    /\ fill_text \in LineTexts
    /\ fill_class \in {"zw1", "zw2", "zw3"}
    /\ fill_result = NoFill
    /\ pc = "fill"
    /\ input_blocks = <<>>
    /\ pages = <<>>
    /\ remaining_blocks = <<>>
    /\ page_number = 1
    /\ max_lines = 0
    /\ lines = <<>>
    /\ current_line_number = 1
    /\ block_index = 1
    /\ block_lines = <<>>
    /\ remaining_text = <<>>
    /\ is_first_line = FALSE
    /\ lines_used = 0
    /\ returned = <<>>
    /\ hyphen_word = <<>>
    /\ hyphen_point = 0

LineInit == LineInitWith(LineConfigs)

\* one call of fill_line_handwritten
FillLine ==
    /\ pc = "fill"
    /\ fill_result' = fill_line_handwritten(fill_text, fill_class, config)
    /\ pc' = "filled"
    /\ UNCHANGED <<config, hyphen_locals, input_blocks, returned, pages, remaining_blocks, page_number,
                   page_locals, block_locals, fill_text, fill_class>>

LineSpec == LineInit /\ [][FillLine]_vars

\* The indent is not compared with the width of the text area: any indent
\* from 0 up to the largest width, with any positive width.
IndentConfigs ==
    [text_area_width   : 1..TextAreaWidth,
     paragraph_indent  : 0..TextAreaWidth,
     first_page_lines  : {MaxLines},
     normal_page_lines : {MaxLines}]

IndentInit == LineInitWith(IndentConfigs)

IndentSpec == IndentInit /\ [][FillLine]_vars

---------------------------------------------------------------------------
(* find_best_hyphen_position alone, on words of more than 6 characters *)

\* stems that match no prefix and no suffix
Stems == {[i \in 1..n |-> "k"] : n \in 5..(MaxTextLen + 2)}

\* words of the table, a word for every prefix and every suffix, words with
\* both, words with neither, and words with capitals
HyphenWords ==
    {word \in special_keys
           \cup {prefix \o stem : prefix \in common_prefixes, stem \in Stems}
           \cup {stem \o suffix : stem \in Stems, suffix \in common_suffixes}
           \cup {<<"u", "n">> \o stem \o <<"e", "s">> : stem \in Stems}
           \cup {stem \o <<"k", "k">> : stem \in Stems}
           \cup {<<"M", "a", "c", "h", "i", "n", "e">>,
                 <<"P", "R", "E", "k", "k", "k", "k", "k">>,
                 <<"k", "k", "k", "k", "k", "I", "N", "G">>} :
        Len(word) > 6}

HyphenInit ==
    /\ config \in LineConfigs
    /\ hyphen_word \in HyphenWords
    /\ hyphen_point = 0
    /\ pc = "hyphen"
    /\ fill_text = <<>>
    /\ fill_class = ""
    /\ fill_result = NoFill
    /\ input_blocks = <<>>
    /\ pages = <<>>
    /\ remaining_blocks = <<>>
    /\ page_number = 1
    /\ max_lines = 0
    /\ lines = <<>>
    /\ current_line_number = 1
    /\ block_index = 1
    /\ block_lines = <<>>
    /\ remaining_text = <<>>
    /\ is_first_line = FALSE
    /\ lines_used = 0
    /\ returned = <<>>

\* one call of find_best_hyphen_position
FindPosition ==
    /\ pc = "hyphen"
    /\ hyphen_point' = find_best_hyphen_position(hyphen_word)
    /\ pc' = "hyphenated"
    /\ UNCHANGED <<config, hyphen_word, input_blocks, returned, pages,
                   remaining_blocks, page_number, page_locals, block_locals,
                   fill_locals>>

HyphenSpec == HyphenInit /\ [][FindPosition]_vars

---------------------------------------------------------------------------
(* Notions the properties use *)

IsHeading(block) == block.type \in {"h1", "h2"}
IsTitleLine(line) == line.css_class \in {"bt1", "bt2"}
IsBlank(text) == strip(text) = <<>>

\* the capacity of a page, from the configuration
Capacity(page) ==
    IF page.page_number = 1 THEN config.first_page_lines ELSE config.normal_page_lines

RECURSIVE Flatten(_)
Flatten(texts) == IF texts = <<>> THEN <<>> ELSE Head(texts) \o Flatten(Tail(texts))

\* the text of a sequence of lines or blocks, in order
TextOf(items) == Flatten([i \in 1..Len(items) |-> items[i].text])

\* a text without its spaces and hyphens (the inputs hold no hyphen, so
\* every hyphen of a line is one that hyphenation inserted)
Squash(text) == SelectSeq(text, LAMBDA char : char \notin {" ", "-"})

\* every line of every page, in order
AllLines(pgs) == Flatten([i \in 1..Len(pgs) |-> pgs[i].lines])

\* the composition returned (normally, or at the page cap)
Returned == pc = "done"

\* the composition returned or raised
Terminated == pc \in {"done", "error"}

---------------------------------------------------------------------------
(* C1 *)

\* C1 (as claimed): fill_line_handwritten on a non-blank text returns a
\* remainder strictly shorter than the text.
C1_Progress ==
    (pc = "filled" /\ ~IsBlank(fill_text))
        => Len(fill_result.remainder) < Len(fill_text)

---------------------------------------------------------------------------
(* C2 *)

\* C2 (as claimed): compose_document terminates on every input: it returns
\* the pages or raises.
C2_Terminates == <>Terminated

---------------------------------------------------------------------------
(* C3 *)

\* C3 (as claimed): compose_document never returns while blocks are still
\* pending in the queue.
C3_NoTruncation == Returned => remaining_blocks = <<>>

---------------------------------------------------------------------------
(* C4 *)

\* C4 (as claimed): when the composition has consumed every block, the
\* texts of all lines, in order, without inserted hyphens and whitespace,
\* are the texts of the input blocks, in order, without whitespace.
C4_Conservation ==
    (Returned /\ remaining_blocks = <<>>)
        => Squash(TextOf(AllLines(pages))) = Squash(TextOf(input_blocks))

---------------------------------------------------------------------------
(* C5 *)

\* the line slots a sequence of lines occupies: 2 per title line, 1 per
\* paragraph line
Slots(ls) == Len(ls) + Cardinality({i \in 1..Len(ls) : IsTitleLine(ls[i])})

\* C5: every page has line_count at most its capacity, and the slots its
\* lines occupy are at most its capacity.
C5_CapacityBound ==
    \A i \in 1..Len(pages) :
        /\ pages[i].line_count <= Capacity(pages[i])
        /\ Slots(pages[i].lines) <= Capacity(pages[i])

\* a returned page that a heading and a paragraph line fill to its capacity
C5_Witness ==
    /\ Returned
    /\ \E i \in 1..Len(pages) :
          /\ Slots(pages[i].lines) = Capacity(pages[i])
          /\ \E j, k \in 1..Len(pages[i].lines) :
                IsTitleLine(pages[i].lines[j]) /\ ~IsTitleLine(pages[i].lines[k])

---------------------------------------------------------------------------
(* C6 *)

\* the headings of a sequence of blocks, as <<class, text>>
HeadingsOf(blocks) ==
    LET hs == SelectSeq(blocks, IsHeading)
    IN  [i \in 1..Len(hs) |-> <<IF hs[i].type = "h1" THEN "bt1" ELSE "bt2", hs[i].text>>]

\* the title lines of a sequence of lines, as <<class, text>>
TitlesOf(ls) ==
    LET ts == SelectSeq(ls, IsTitleLine)
    IN  [i \in 1..Len(ts) |-> <<ts[i].css_class, ts[i].text>>]

\* C6: a title line is at slots n and n+1 of its page, right after the
\* slots of the lines before it, with n+1 at most the capacity; and between
\* pages the title lines emitted so far followed by the headings still in
\* the queue are the headings of the input, each once and in order.
C6_HeadingAtomic ==
    /\ \A i \in 1..Len(pages) : \A j \in 1..Len(pages[i].lines) :
          IsTitleLine(pages[i].lines[j]) =>
              /\ pages[i].lines[j].line_number
                     = Slots(SubSeq(pages[i].lines, 1, j - 1)) + 1
              /\ pages[i].lines[j].line_display
                     = <<pages[i].lines[j].line_number,
                         pages[i].lines[j].line_number + 1>>
              /\ pages[i].lines[j].line_number + 1 <= Capacity(pages[i])
    /\ pc \in {"doc", "done"} =>
          TitlesOf(AllLines(pages)) \o HeadingsOf(remaining_blocks)
              = HeadingsOf(input_blocks)

\* a returned document with a title line in the last two slots of a page,
\* after a paragraph line, and a title line on a later page
C6_Witness ==
    /\ Returned
    /\ remaining_blocks = <<>>
    /\ \E i \in 1..Len(pages) : \E j \in 1..Len(pages[i].lines) :
          /\ IsTitleLine(pages[i].lines[j])
          /\ pages[i].lines[j].line_number > 1
          /\ pages[i].lines[j].line_number + 1 = Capacity(pages[i])
    /\ \E i \in 2..Len(pages) : \E j \in 1..Len(pages[i].lines) :
          IsTitleLine(pages[i].lines[j])

---------------------------------------------------------------------------
(* C7 *)

\* the block compose_page is at
HeadIsHeading ==
    /\ block_index <= Len(remaining_blocks)
    /\ IsHeading(remaining_blocks[block_index])

FreeSlots == max_lines - current_line_number + 1

\* a heading is at the head of the queue and fewer than 2 slots are free:
\* compose_page emits no line for it and returns it as the head of the queue
DeferralStep ==
    /\ (pc = "page" /\ HeadIsHeading /\ FreeSlots < 2) =>
          /\ pc' = "page_end"
          /\ lines' = lines
          /\ block_index' = block_index
          /\ remaining_blocks' = remaining_blocks
    /\ (pc = "page_end" /\ HeadIsHeading) =>
          /\ pages' = Append(pages, Page(lines, page_number, max_lines))
          /\ remaining_blocks' # <<>>
          /\ remaining_blocks'[1] = remaining_blocks[block_index]

\* a later page starts with a heading at the head of the queue: the page
\* before deferred it
AfterDeferral ==
    /\ pc = "page"
    /\ page_number > 1
    /\ block_index = 1
    /\ lines = <<>>
    /\ HeadIsHeading

\* the step emits the head of the queue as the first line, at slot 1
EmitsHeadFirst ==
    /\ Len(lines') = 1
    /\ IsTitleLine(lines'[1])
    /\ lines'[1].text = remaining_blocks[1].text
    /\ lines'[1].line_number = 1
    /\ block_index' = 2

\* C7 (as claimed): a deferred heading is returned as the head of the
\* queue, and the next page emits it as its first line at slot 1.
C7_Original == [][DeferralStep /\ (AfterDeferral => EmitsHeadFirst)]_vars

\* C7 (amended): a deferred heading is returned as the head of the queue,
\* and the next page, when its capacity is at least 2, emits it as its
\* first line at slot 1.
C7_Deferral ==
    [][DeferralStep /\ ((AfterDeferral /\ max_lines >= 2) => EmitsHeadFirst)]_vars

\* page 1 ended with exactly one free slot and page 2 has the heading as
\* its first line at slot 1
C7_Witness ==
    /\ pc = "page"
    /\ page_number = 2
    /\ Capacity(pages[1]) - Slots(pages[1].lines) = 1
    /\ Len(lines) = 1
    /\ IsTitleLine(lines[1])
    /\ lines[1].line_number = 1
    /\ block_index = 2

---------------------------------------------------------------------------
(* C8 *)

StartsWithPunctuation(text) == text # <<>> /\ text[1] \in PUNCTUATION

\* C8 (as claimed): no line of a paragraph after its first begins with
\* punctuation, and no remainder fill_line_handwritten returns does.
C8_NoOrphan ==
    /\ pc \in {"block", "block_done"} =>
          \A i \in 1..Len(block_lines) :
              (i > 1 \/ remaining_blocks[block_index].is_continuation)
                  => ~StartsWithPunctuation(block_lines[i].text)
    /\ ~StartsWithPunctuation(fill_result.remainder)

---------------------------------------------------------------------------
(* C9 *)

\* what is left of a paragraph text after its first n lines
RECURSIVE remainder_after(_, _, _)
remainder_after(text, first_line, n) ==
    IF n = 0 THEN text
    ELSE remainder_after(
             fill_line_handwritten(text, line_css_class(text, first_line, config),
                                   config).remainder,
             FALSE, n - 1)

\* compose_block is returning to compose_page
BlockReturns == (pc = "block" /\ remaining_text = <<>>) \/ pc = "block_done"

\* C9 (as claimed): when the block needs more lines than the page has free
\* slots, the page gets the first FreeSlots lines, none of them zw3, and the
\* block is replaced in the queue by a continuation block that carries
\* exactly the text not placed; the first line of a continuation is not zw1
\* and has no indent.
C9_Split ==
    [][/\ (BlockReturns /\ Len(block_lines) > FreeSlots) =>
             /\ Len(lines') = Len(lines) + FreeSlots
             /\ \A i \in 1..FreeSlots :
                   /\ lines'[Len(lines) + i].text = block_lines[i].text
                   /\ lines'[Len(lines) + i].css_class # "zw3"
             /\ block_index' = block_index
             /\ remaining_blocks' =
                   [remaining_blocks EXCEPT ![block_index] =
                       ContentBlock("paragraph",
                                    remainder_after(
                                        strip(remaining_blocks[block_index].text),
                                        ~remaining_blocks[block_index].is_continuation,
                                        FreeSlots),
                                    TRUE)]
       /\ (pc = "block" /\ remaining_text # <<>> /\ block_lines = <<>>
               /\ remaining_blocks[block_index].is_continuation) =>
             /\ fill_class' # "zw1"
             /\ fill_result'.width = get_text_width(fill_result'.line)
      ]_vars

---------------------------------------------------------------------------
(* C10 *)

\* the block compose_block is returning from is a first (not a
\* continuation) block whose whole text fits the first line
OneLineBlock ==
    /\ BlockReturns
    /\ ~remaining_blocks[block_index].is_continuation
    /\ get_text_width(remaining_blocks[block_index].text)
           <= config.text_area_width - config.paragraph_indent

\* the step puts one zw3 line of the given width on the page and pops the
\* block, without a continuation block
PlacesOneLine(width) ==
    /\ Len(lines') = Len(lines) + 1
    /\ lines'[Len(lines')].css_class = "zw3"
    /\ lines'[Len(lines')].width = width
    /\ block_index' = block_index + 1
    /\ remaining_blocks' = remaining_blocks

\* C10 (as claimed): such a paragraph yields exactly one line, zw3, of the
\* width of the text plus the indent, and is popped.
C10_Original ==
    [][OneLineBlock =>
          PlacesOneLine(get_text_width(remaining_blocks[block_index].text)
                            + config.paragraph_indent)]_vars

---------------------------------------------------------------------------
(* C11 *)

\* the width a line of the class of the call may take
AvailableWidth ==
    config.text_area_width - (IF fill_class = "zw1" THEN config.paragraph_indent ELSE 0)

\* the number of leading tokens that fit the width together
FitCount(words, width) ==
    longest({k \in 0..Len(words) : get_text_width(TextOf(SubSeq(words, 1, k))) <= width})

\* a word token hyphenation applies to
Hyphenatable(word) ==
    /\ word.type = "english"
    /\ Len(word.text) > 6
    /\ lower(word.text) \notin protected_words

\* the call returned the tokens accepted before the word, then either the
\* first part of the word with a hyphen or nothing of the word
HyphenOutcome(accepted, word, free_width, hyphen_pos) ==
    IF get_text_width(SubSeq(word, 1, hyphen_pos) \o <<"-">>) <= free_width
    THEN /\ fill_result.line = accepted \o SubSeq(word, 1, hyphen_pos) \o <<"-">>
         /\ startswith(fill_result.remainder, SubSeq(word, hyphen_pos + 1, Len(word)))
    ELSE /\ fill_result.line = accepted
         /\ startswith(fill_result.remainder, word)

\* the first token that does not fit, when it is a hyphenatable word,
\* has the outcome above
HyphenationOf(words, k) ==
    (k < Len(words) /\ Hyphenatable(words[k + 1])) =>
        HyphenOutcome(TextOf(SubSeq(words, 1, k)), words[k + 1].text,
                      AvailableWidth - get_text_width(TextOf(SubSeq(words, 1, k))),
                      find_best_hyphen_position(words[k + 1].text))

\* C11: when the first token that does not fit is a hyphenatable word, then
\* if its first part plus "-" fits the width still free, the line ends with
\* that part plus "-" and the remainder begins with the rest of the word;
\* otherwise the line ends before the word and the remainder begins with
\* the whole word.
C11_Hyphenation ==
    (pc = "filled" /\ ~IsBlank(fill_text)) =>
        HyphenationOf(tokenize(fill_text, 1),
                      FitCount(tokenize(fill_text, 1), AvailableWidth))

\* a call that accepted a token and then the first part of a word
C11_Witness ==
    /\ pc = "filled"
    /\ Len(fill_result.line) > 2
    /\ fill_result.line[Len(fill_result.line)] = "-"
    /\ fill_result.line[1] \in {" ", ",", Z}
    /\ fill_result.remainder # <<>>

---------------------------------------------------------------------------
(* C12 *)

\* C12: the calls of compose_document on the same block sequence with the
\* same configuration returned the same pages.
C12_Deterministic ==
    \A i, j \in 1..Len(returned) : returned[i] = returned[j]

\* two calls returned, and in each a paragraph was split between page 1 and
\* page 2
C12_Witness ==
    /\ Len(returned) = 2
    /\ Len(returned[2]) >= 2
    /\ returned[2][1].lines # <<>>
    /\ returned[2][1].lines[Len(returned[2][1].lines)].css_class \in {"zw1", "zw2"}
    /\ returned[2][2].lines # <<>>

---------------------------------------------------------------------------
(* C13 *)

KnownKind(block) == block.type \in {"h1", "h2", "paragraph"}

\* C13 (as claimed): when the input holds a block of an unknown kind,
\* compose_document returns no page list.
C13_UnknownKind ==
    Returned => \A i \in 1..Len(input_blocks) : KnownKind(input_blocks[i])

---------------------------------------------------------------------------
(* C14 *)

\* C14 (as claimed): with a non-positive page capacity or text-area width
\* no page is produced.
C14_ConfigRejected ==
    (\/ config.first_page_lines <= 0
     \/ config.normal_page_lines <= 0
     \/ config.text_area_width <= 0)
        => (pages = <<>> /\ returned = <<>>)

---------------------------------------------------------------------------
(* C15 *)

\* C15: the pages are numbered 1, 2, ... in order; page 1 has the
\* first-page capacity and every later page the normal-page capacity (the
\* capacity of a page is its line_count plus its remaining_lines); and when
\* compose_document returns without having reached the page cap, the queue
\* is empty.
C15_PageNumbering ==
    /\ \A i \in 1..Len(pages) :
          /\ pages[i].page_number = i
          /\ pages[i].line_count + pages[i].remaining_lines
                 = (IF i = 1 THEN config.first_page_lines
                             ELSE config.normal_page_lines)
    /\ (Returned /\ Len(pages) < MaxPages) => remaining_blocks = <<>>

\* a document of three pages was returned, composed with two different
\* capacities
C15_Witness ==
    /\ Returned
    /\ Len(pages) = 3
    /\ remaining_blocks = <<>>
    /\ config.first_page_lines # config.normal_page_lines

---------------------------------------------------------------------------
(* C16 *)

\* C16: no step of the composition changes the caller's list or a block in
\* it; a split puts a new block in the queue of the composer.
C16_InputUnchanged == [][input_blocks' = input_blocks]_vars

\* a paragraph of the input was split: the queue holds its continuation
\* block, the caller's list holds the paragraph as it was given
C16_Witness ==
    /\ pc = "doc"
    /\ remaining_blocks # <<>>
    /\ remaining_blocks[1].is_continuation
    /\ Len(pages) = 1
    /\ input_blocks # <<>>
    /\ \A i \in 1..Len(input_blocks) : ~input_blocks[i].is_continuation
    /\ input_blocks[Len(input_blocks) - Len(remaining_blocks) + 1].type = "paragraph"
    /\ input_blocks[Len(input_blocks) - Len(remaining_blocks) + 1].text
           # remaining_blocks[1].text

---------------------------------------------------------------------------
(* C17 *)

\* C17 (as claimed): compose_page does not return with a paragraph at the
\* head of the remaining queue while a line slot of the page is free.
C17_PageFinal ==
    (/\ pc = "page_end"
     /\ block_index <= Len(remaining_blocks)
     /\ remaining_blocks[block_index].type = "paragraph")
        => current_line_number > max_lines

---------------------------------------------------------------------------
(* C18 *)

\* the class of line i of the n lines of a block
ExpectedClass(i, n, is_continuation) ==
    IF i = n THEN "zw3"
    ELSE IF i = 1 /\ ~is_continuation THEN "zw1"
    ELSE "zw2"

\* C18: of the lines compose_block laid out for a paragraph, the ones put on
\* the page have these classes: the last line of the block is zw3, its
\* first line is zw1 unless the block is a continuation, every other line is
\* zw2.  So a line with more text of its paragraph after it is never zw3,
\* and the first line of a continuation block is never zw1.
C18_LineStyles ==
    [][BlockReturns =>
          \A i \in 1..(Len(lines') - Len(lines)) :
              lines'[Len(lines) + i].css_class
                  = ExpectedClass(i, Len(block_lines),
                                  remaining_blocks[block_index].is_continuation)]_vars

\* a paragraph of three lines was split: the page before ends with its
\* zw1 line and this page holds its zw2 and zw3 lines
C18_Witness ==
    /\ pages # <<>>
    /\ pages[Len(pages)].lines # <<>>
    /\ pages[Len(pages)].lines[Len(pages[Len(pages)].lines)].css_class = "zw1"
    /\ Len(lines) = 2
    /\ lines[1].css_class = "zw2"
    /\ lines[2].css_class = "zw3"

---------------------------------------------------------------------------
(* C19 *)

\* the returned width is at most the width of the text area, and the
\* utilization at most 1
WithinLine ==
    /\ fill_result.width <= config.text_area_width
    /\ fill_result.utilization.num <= fill_result.utilization.den

\* C19 (as claimed): every line fill_line_handwritten returns has a width
\* of at most the full line width and a utilization of at most 1.
C19_Original == pc = "filled" => WithinLine

\* C19 (amended): when the first-line indent is at most the line width,
\* every line fill_line_handwritten returns has a width of at most the
\* full line width and a utilization of at most 1.
C19_WidthBound ==
    (pc = "filled" /\ config.paragraph_indent <= config.text_area_width)
        => WithinLine

\* a first line that ends with a hyphenated part and is exactly as wide as
\* the text area
C19_Witness ==
    /\ pc = "filled"
    /\ fill_class = "zw1"
    /\ config.paragraph_indent > 0
    /\ fill_result.line # <<>>
    /\ fill_result.line[Len(fill_result.line)] = "-"
    /\ fill_result.width = config.text_area_width

---------------------------------------------------------------------------
(* C20 *)

Hyphens(text) == Cardinality({i \in 1..Len(text) : text[i] = "-"})

\* the call put a hyphen into the text
HyphenInserted ==
    Hyphens(fill_result.line) + Hyphens(fill_result.remainder) > Hyphens(fill_text)

\* k tokens fit: a hyphen is inserted only when the next token is a
\* hyphenatable word, and a next word that is not hyphenatable is the head
\* of the remainder, whole
EligibilityOf(words, k) ==
    /\ HyphenInserted => (k < Len(words) /\ Hyphenatable(words[k + 1]))
    /\ (k < Len(words) /\ words[k + 1].type = "english" /\ ~Hyphenatable(words[k + 1]))
          => /\ ~HyphenInserted
             /\ startswith(fill_result.remainder, words[k + 1].text)

\* C20: a hyphen is inserted only into a word token longer than 6
\* characters that does not fit on the line and is not a protected word
\* (compared in lower case); a word of 6 characters or fewer or a protected
\* word that does not fit moves whole to the remainder.
C20_Eligibility ==
    (pc = "filled" /\ ~IsBlank(fill_text)) =>
        EligibilityOf(tokenize(fill_text, 1),
                      FitCount(tokenize(fill_text, 1), AvailableWidth))

\* a protected word of more than 6 characters did not fit after an
\* accepted token and is the remainder, whole
C20_Witness ==
    /\ pc = "filled"
    /\ fill_result.line # <<>>
    /\ Len(fill_result.remainder) > 6
    /\ lower(fill_result.remainder) \in protected_words
    /\ ~HyphenInserted

---------------------------------------------------------------------------
(* C21 *)

\* the largest length of the prefixes that the word, in lower case, starts
\* with, 0 when there is none
MatchingPrefix(word) ==
    longest({Len(p) : p \in {q \in common_prefixes : startswith(lower(word), q)}})

\* the largest length of the suffixes of at least min_length characters
\* that the word, in lower case, ends with, 0 when there is none
MatchingSuffix(word, min_length) ==
    longest({Len(s) : s \in {t \in common_suffixes :
                                Len(t) >= min_length /\ endswith(lower(word), t)}})

\* the order of the rules: table, prefix, suffix, midpoint
RulePosition(word, prefix, suffix) ==
    IF lower(word) \in special_keys THEN special_index(lower(word))
    ELSE IF prefix > 0 THEN prefix
    ELSE IF suffix > 0 THEN Len(word) - suffix
    ELSE Len(word) \div 2

\* the position leaves at least 2 characters on each side
TwoEachSide == 2 <= hyphen_point /\ hyphen_point <= Len(hyphen_word) - 2

\* C21 (as claimed): for a word of more than 6 characters the position is
\* the index of the table, else the length of the longest matching prefix,
\* else the length of the word minus the longest matching suffix, else the
\* midpoint, and it leaves at least 2 characters on each side.
C21_Original ==
    pc = "hyphenated" =>
        /\ hyphen_point = RulePosition(hyphen_word, MatchingPrefix(hyphen_word),
                                     MatchingSuffix(hyphen_word, 1))
        /\ TwoEachSide

\* C21 (amended): the same, with the longest matching suffix of at least 2
\* characters.
C21_HyphenPoint ==
    pc = "hyphenated" =>
        /\ hyphen_point = RulePosition(hyphen_word, MatchingPrefix(hyphen_word),
                                     MatchingSuffix(hyphen_word, 2))
        /\ TwoEachSide

\* a word outside the table, with no prefix, that ends with "es" and so
\* also with the suffix "s": the position is 2 before the end
C21_Witness ==
    /\ pc = "hyphenated"
    /\ lower(hyphen_word) \notin special_keys
    /\ MatchingPrefix(hyphen_word) = 0
    /\ MatchingSuffix(hyphen_word, 2) = 2
    /\ endswith(lower(hyphen_word), <<"s">>)
    /\ hyphen_point = Len(hyphen_word) - 2

---------------------------------------------------------------------------
(* C22 *)

\* compose_block is returning more lines than the page has free slots, and
\* the page has a free slot: the block is split
BlockSplits == BlockReturns /\ 0 < FreeSlots /\ FreeSlots < Len(block_lines)

\* the texts of the lines from the i-th on
LineTextsFrom(blines, i) == [j \in 1..(Len(blines) - i + 1) |-> blines[i + j - 1].text]

\* C22 (as claimed): when a paragraph is split at the end of a page, laying
\* out its continuation block gives the texts of the lines that did not fit,
\* so that the line texts of the paragraph are those of the layout on one
\* page: no second hyphen in a hyphenated word, no two words joined.
C22_SplitInvariance ==
    BlockSplits =>
        block_line_texts(strip(continuation_block(block_lines, FreeSlots).text),
                         FALSE, config, MaxBlockLines)
            = LineTextsFrom(block_lines, FreeSlots + 1)

---------------------------------------------------------------------------
(* C23 *)

\* C23 (as claimed): remaining_lines of every page is its capacity minus
\* the slots its lines occupy, a heading 2 slots and a paragraph line 1,
\* and is never negative.
C23_RemainingSlots ==
    \A i \in 1..Len(pages) :
        /\ pages[i].remaining_lines = Capacity(pages[i]) - Slots(pages[i].lines)
        /\ pages[i].remaining_lines >= 0

---------------------------------------------------------------------------
(* C24 *)

\* both capacities are at least 2
RoomForHeading == config.first_page_lines >= 2 /\ config.normal_page_lines >= 2

\* C24: when both capacities are at least 2, every page has at least one
\* line, and it is a line of the block that was at the head of the queue;
\* for an empty sequence of blocks compose_document returns no page.
C24_NoEmptyPage ==
    RoomForHeading =>
        /\ \A i \in 1..Len(pages) : pages[i].lines # <<>>
        /\ pc = "page_end" =>
              /\ lines # <<>>
              /\ block_index > 1 \/ remaining_blocks[1].is_continuation
        /\ (Returned /\ input_blocks = <<>>) => pages = <<>>

\* a heading that did not fit after a paragraph line on a page of capacity
\* 2 is the first line of the next page
C24_Witness ==
    /\ Returned
    /\ RoomForHeading
    /\ Len(pages) >= 2
    /\ pages[1].remaining_lines > 0
    /\ \A i \in 1..Len(pages) : pages[i].lines # <<>>
    /\ IsTitleLine(pages[2].lines[1])

=============================================================================
